---- MODULE Spec2Model ----
(***************************************************************************)
(* A model of news-agent's src/main.py: the keyword filter and classifier, *)
(* the Romanian-title gate, the fuzzy title dedupe, the per-bucket cap,    *)
(* the line-boundary message splitter and the delivery loop.               *)
(*                                                                         *)
(* Strings are sequences of characters.  An ASCII character is the string  *)
(* of that character; a non-ASCII character is the string "U+xxxx" of its  *)
(* code point.                                                             *)
(***************************************************************************)
EXTENDS Integers, Sequences, FiniteSets, TLC

(***************************************************************************)
(* Characters.                                                             *)
(***************************************************************************)
UpperAZ ==
  << "A", "B", "C", "D", "E", "F", "G", "H", "I", "J", "K", "L", "M",
     "N", "O", "P", "Q", "R", "S", "T", "U", "V", "W", "X", "Y", "Z" >>

LowerAZ ==
  << "a", "b", "c", "d", "e", "f", "g", "h", "i", "j", "k", "l", "m",
     "n", "o", "p", "q", "r", "s", "t", "u", "v", "w", "x", "y", "z" >>

Digits ==
  << "0", "1", "2", "3", "4", "5", "6", "7", "8", "9" >>

Range(s) == { s[i] : i \in DOMAIN s }

\* The non-ASCII characters written in the character class of norm's second
\* regex and in is_romanian's first test (the same ten characters, as the
\* source file holds them): U+00C4 U+0192 U+00C3 U+00A2 U+00C3 U+00AE U+00C8
\* U+2122 U+00C8 U+203A.
DiacriticChars ==
  { "U+00C4", "U+0192", "U+00C3", "U+00A2", "U+00AE", "U+00C8", "U+2122",
    "U+203A" }

\* str.lower() on one character.
LowerChar(c) ==
  IF c \in Range(UpperAZ)
    THEN LowerAZ[CHOOSE i \in DOMAIN UpperAZ : UpperAZ[i] = c]
    ELSE CASE c = "U+00C4" -> "U+00E4"
           [] c = "U+00C3" -> "U+00E3"
           [] c = "U+00C8" -> "U+00E8"
           [] c = "U+0412" -> "U+0432"
           [] OTHER -> c

Lower(s) == [i \in DOMAIN s |-> LowerChar(s[i])]

\* The whitespace characters of the regex class \s and of str.strip().
IsSpace(c) == c \in { " ", "\t", "\n", "\r" }

\* The characters the class [^a-z0-9...\- ] of norm's second regex keeps.
Allowed(c) ==
  c \in Range(LowerAZ) \cup Range(Digits) \cup DiacriticChars \cup { "-", " " }

\* Code-point order of the characters a normalized string can hold.
CharOrder ==
  << " ", "-" >> \o Digits \o LowerAZ \o
  << "U+00A2", "U+00AE", "U+00C3", "U+00C4", "U+00C8", "U+0192", "U+203A",
     "U+2122" >>

Ord(c) == CHOOSE i \in DOMAIN CharOrder : CharOrder[i] = c

(***************************************************************************)
(* norm                                                                    *)
(***************************************************************************)
\* The least index j >= i with s[j] = c, or 0.
RECURSIVE IndexFrom(_, _, _)
IndexFrom(s, c, i) ==
  IF i > Len(s) THEN 0
  ELSE IF s[i] = c THEN i
  ELSE IndexFrom(s, c, i + 1)

\* re.sub(r"<[^>]+>", " ", s): leftmost, non-overlapping.  A match starts at
\* a "<" and runs to the next ">" with at least one character between them.
RECURSIVE StripTags(_)
StripTags(s) ==
  IF s = << >> THEN << >>
  ELSE IF s[1] = "<"
    THEN LET j == IndexFrom(s, ">", 2)
         IN  IF j >= 3
               THEN << " " >> \o StripTags(SubSeq(s, j + 1, Len(s)))
               ELSE << s[1] >> \o StripTags(Tail(s))
    ELSE << s[1] >> \o StripTags(Tail(s))

\* re.sub(r"[^...]+", " ", s): every maximal run of characters outside the
\* class becomes one space.
RECURSIVE StripChars(_)
StripChars(s) ==
  IF s = << >> THEN << >>
  ELSE IF Allowed(s[1]) THEN << s[1] >> \o StripChars(Tail(s))
  ELSE IF Len(s) >= 2 /\ ~Allowed(s[2]) THEN StripChars(Tail(s))
  ELSE << " " >> \o StripChars(Tail(s))

\* re.sub(r"\s+", " ", s).
RECURSIVE CollapseSpaces(_)
CollapseSpaces(s) ==
  IF s = << >> THEN << >>
  ELSE IF ~IsSpace(s[1]) THEN << s[1] >> \o CollapseSpaces(Tail(s))
  ELSE IF Len(s) >= 2 /\ IsSpace(s[2]) THEN CollapseSpaces(Tail(s))
  ELSE << " " >> \o CollapseSpaces(Tail(s))

RECURSIVE LStrip(_)
LStrip(s) ==
  IF s # << >> /\ IsSpace(s[1]) THEN LStrip(Tail(s)) ELSE s

RECURSIVE RStrip(_)
RStrip(s) ==
  IF s # << >> /\ IsSpace(s[Len(s)])
    THEN RStrip(SubSeq(s, 1, Len(s) - 1))
    ELSE s

\* str.strip().
Strip(s) == LStrip(RStrip(s))

\* The computation of norm.
NormOf(txt) == Strip(CollapseSpaces(StripChars(StripTags(Lower(txt)))))

(***************************************************************************)
(* The configuration main reads, and the feeds' contents.                  *)
(***************************************************************************)
\* Python's s[:n].
Slice(s, n) ==
  IF n >= 0
    THEN SubSeq(s, 1, IF n < Len(s) THEN n ELSE Len(s))
    ELSE SubSeq(s, 1, Len(s) + n)

selected == { "politics", "economy", "technology" }

Regions == { "romania", "world" }

\* cfg["categories"]: each category's include_any.
categories ==
  [c \in selected \cup { "sport" } |->
     CASE c = "politics" -> << << "V", "o", "t" >> >>
       [] c = "economy" -> << << "e", "u", "r", "o" >> >>
       [] c = "technology" -> << << " ", "a", "i" >>, << "!" >> >>
       [] c = "sport" -> << << "l", "a" >> >>]

\* cfg["filters"]["exclude_any"]
exclude_any == << << "C", "r", "i", "m", "a" >> >>

\* cfg["feeds"]: the second romania feed has no url.
feeds ==
  [romania |-> << [name |-> << "R", "O" >>, url |-> << "r" >>],
                  [name |-> << "X" >>, url |-> << " " >>] >>,
   world |-> << [name |-> << "W" >>, url |-> << "w", " " >>] >>]

\* The settings main may be configured with.
MaxItemsValues == { -1, 0, 1, 10 }

ThresholdValues == { 0, 80, 92, 101 }

ItemsPerFeedValues == { 1, 2 }

\* The entries a feed may carry.
Vot_la_euro ==
  [title |-> << "V", "o", "t", " ", "l", "a", " ", "e", "u", "r", "o" >>,
   summary |-> << >>,
   link |-> << "u", "/", "1" >>]

EURO_la_vot ==
  [title |-> << "E", "U", "R", "O", " ", " ", "l", "a", " ", "v", "o", "t",
                "!", " " >>,
   summary |-> << >>,
   link |-> << "u", "/", "2" >>]

Vot_la_ai ==
  [title |-> << "V", "o", "t", " ", "l", "a", " ", "a", "i" >>,
   summary |-> << >>,
   link |-> << "u", "/", "c", "r", "i", "m", "a", "/", "3" >>]

Untitled ==
  [title |-> << >>,
   summary |-> << "v", "o", "t", " ", "<", "b", ">", "a", "i", "<", "/", "b",
                  ">" >>,
   link |-> << "u", "/", "4" >>]

Euro_vote ==
  [title |-> << "E", "u", "r", "o", " ", "v", "o", "t", "e" >>,
   summary |-> << >>,
   link |-> << >>]

Entries == { Vot_la_euro, EURO_la_vot, Vot_la_ai, Untitled, Euro_vote }

\* The longest entry list a feed carries.
MaxFeedLen == 2

\* The sequences of Q, and each with one more element of S.
Extended(Q, S) == Q \cup { Append(q, x) : q \in Q, x \in S }

\* The sequences over S of length at most n.
RECURSIVE SeqsUpTo(_, _)
SeqsUpTo(S, n) ==
  IF n = 0 THEN { << >> } ELSE Extended(SeqsUpTo(S, n - 1), S)

\* What feedparser.parse may give for a url: a feed with entries, or an
\* exception (it catches URLError only).
FetchOutcomes ==
  { [raised |-> FALSE, entries |-> es] : es \in SeqsUpTo(Entries, MaxFeedLen) }
  \cup { [raised |-> TRUE, entries |-> << >>] }

\* fetch(feed_url, limit) on a parse that returned.
fetch(outcome, limit) == Slice(outcome.entries, limit)


(***************************************************************************)
(* The fields of an entry as process reads them.                           *)
(***************************************************************************)
EntryTitle(entry) == Strip(entry.title)

EntrySummary(entry) == Strip(entry.summary)

EntryLink(entry) == Strip(entry.link)

EntryHay(entry) ==
  EntryTitle(entry) \o << " " >> \o EntrySummary(entry) \o << " " >> \o EntryLink(entry)

\* The texts a run over these feeds and this configuration normalizes: the
\* hay of the exclusion test, the hay of classify, the titles, and the
\* keywords.
NormArgs ==
  { EntryHay(x) : x \in Entries }
  \cup { EntryTitle(x) \o << " " >> \o EntrySummary(x) : x \in Entries }
  \cup { EntryTitle(x) : x \in Entries }
  \cup Range(exclude_any)
  \cup UNION { Range(categories[c]) : c \in DOMAIN categories }

\* NormOf on those texts, computed once.
NormMemo == { << t, NormOf(t) >> : t \in NormArgs }

norm(txt) ==
  IF txt \in NormArgs
    THEN (CHOOSE p \in NormMemo : p[1] = txt)[2]
    ELSE NormOf(txt)

(***************************************************************************)
(* any_kw_in, classify, is_romanian                                        *)
(***************************************************************************)
\* Python's "k in t" on strings.
Contains(t, k) ==
  \E i \in 0..(Len(t) - Len(k)) : SubSeq(t, i + 1, i + Len(k)) = k

any_kw_in(txt, kws) ==
  LET t == norm(txt)
  IN  \E n \in DOMAIN kws :
        LET kk == norm(kws[n]) IN kk # << >> /\ Contains(t, kk)

\* rules is the categories argument: a function from category names to
\* include_any lists.
classify(title, summary, rules) ==
  LET hay == title \o << " " >> \o summary
  IN  { cat \in DOMAIN rules :
          rules[cat] # << >> /\ any_kw_in(hay, rules[cat]) }

ro_words ==
  << << " ", "U+00C8", "U+2122", "i", " " >>,
     << " ", "U+00C3", "U+00AE", "n", " " >>,
     << " ", "l", "a", " " >>,
     << " ", "p", "e", "n", "t", "r", "u", " " >>,
     << " ", "d", "i", "n", " " >>,
     << " ", "c", "u", " " >>,
     << " ", "p", "e", " " >>,
     << " ", "d", "e", "s", "p", "r", "e", " " >> >>

is_romanian(title) ==
  LET t == Lower(title)
  IN  \/ \E c \in DiacriticChars : c \in Range(t)
      \/ \E n \in DOMAIN ro_words :
           Contains(<< " " >> \o t \o << " " >>, ro_words[n])

(***************************************************************************)
(* fuzz.token_set_ratio (rapidfuzz), as dedupe calls it: no processor, no  *)
(* score cutoff.  The score is a ratio 100 * num / den; dedupe only        *)
(* compares it with the integer threshold, which is done here exactly, in  *)
(* integers.                                                               *)
(***************************************************************************)
\* s.split(): the whitespace-separated tokens of s, as a set.
RECURSIVE Tokens(_)
Tokens(s) ==
  LET t == LStrip(s)
  IN  IF t = << >> THEN { }
      ELSE LET sp == CHOOSE j \in 1..(Len(t) + 1) :
                       /\ j = Len(t) + 1 \/ IsSpace(t[j])
                       /\ \A k \in 1..(j - 1) : ~IsSpace(t[k])
           IN  { SubSeq(t, 1, sp - 1) } \cup Tokens(SubSeq(t, sp, Len(t)))

\* a < b in Python's string order.
RECURSIVE LexLess(_, _)
LexLess(a, b) ==
  IF b = << >> THEN FALSE
  ELSE IF a = << >> THEN TRUE
  ELSE IF a[1] = b[1] THEN LexLess(Tail(a), Tail(b))
  ELSE Ord(a[1]) < Ord(b[1])

\* " ".join(sorted(toks)).
RECURSIVE JoinSorted(_)
JoinSorted(toks) ==
  IF toks = { } THEN << >>
  ELSE LET m == CHOOSE x \in toks : \A y \in toks \ { x } : LexLess(x, y)
       IN  IF toks = { m } THEN m
           ELSE m \o << " " >> \o JoinSorted(toks \ { m })

\* The length of " ".join(toks).
RECURSIVE JoinLen(_)
JoinLen(toks) ==
  IF toks = { } THEN 0
  ELSE LET x == CHOOSE y \in toks : TRUE
       IN  Len(x) + (IF toks = { x } THEN 0 ELSE 1 + JoinLen(toks \ { x }))

\* The length of a longest common subsequence.
Max(x, y) == IF x >= y THEN x ELSE y

RECURSIVE LCS(_, _)
LCS(a, b) ==
  IF a = << >> \/ b = << >> THEN 0
  ELSE IF a[1] = b[1] THEN 1 + LCS(Tail(a), Tail(b))
  ELSE Max(LCS(Tail(a), b), LCS(a, Tail(b)))

\* Indel.distance: insertions and deletions only.
indel_distance(a, b) == Len(a) + Len(b) - 2 * LCS(a, b)

\* A score 100 * num / den is the pair << num, den >>; num / den is
\* 1 - dist / lensum (1 when lensum is 0), as _norm_distance computes it.
norm_distance(dist, lensum) ==
  IF lensum > 0 THEN << lensum - dist, lensum >> ELSE << 1, 1 >>

\* fuzz.token_set_ratio(s1, s2) is the largest of these scores.
TokenSetRatio(s1, s2) ==
  LET tokens_a == Tokens(s1)
      tokens_b == Tokens(s2)
      intersect == tokens_a \cap tokens_b
      diff_ab == tokens_a \ tokens_b
      diff_ba == tokens_b \ tokens_a
      ab == JoinSorted(diff_ab)
      ba == JoinSorted(diff_ba)
      sect_len == JoinLen(intersect)
      sep == IF sect_len # 0 THEN 1 ELSE 0
      sect_ab_len == sect_len + sep + Len(ab)
      sect_ba_len == sect_len + sep + Len(ba)
  IN  IF tokens_a = { } \/ tokens_b = { } THEN { << 0, 1 >> }
      ELSE IF intersect # { } /\ (diff_ab = { } \/ diff_ba = { })
        THEN { << 1, 1 >> }
      ELSE { norm_distance(indel_distance(ab, ba), sect_ab_len + sect_ba_len) }
           \cup (IF sect_len = 0 THEN { }
                 ELSE { norm_distance(sep + Len(ab), sect_len + sect_ab_len),
                        norm_distance(sep + Len(ba), sect_len + sect_ba_len) })

\* The normalized titles of the entries, and TokenSetRatio on them, computed
\* once.
NormTitles == { norm(EntryTitle(x)) : x \in Entries }

RatioMemo ==
  { << p, TokenSetRatio(p[1], p[2]) >> : p \in NormTitles \X NormTitles }

token_set_ratio(s1, s2) ==
  IF << s1, s2 >> \in NormTitles \X NormTitles
    THEN (CHOOSE p \in RatioMemo : p[1] = << s1, s2 >>)[2]
    ELSE TokenSetRatio(s1, s2)

\* fuzz.token_set_ratio(s1, s2) >= t, for an integer t.
TokenSetRatioGE(s1, s2, t) ==
  \E score \in token_set_ratio(s1, s2) : 100 * score[1] >= t * score[2]

(***************************************************************************)
(* dedupe                                                                  *)
(***************************************************************************)
\* DedupeFrom, but a kept item goes to the front of out (out.insert(0, it)).
RECURSIVE DedupeFromPrepends(_, _, _, _)
DedupeFromPrepends(xs, threshold, i, kept) ==
  IF i > Len(xs) THEN kept
  ELSE IF \E k \in DOMAIN kept :
            TokenSetRatioGE(norm(xs[i].title), norm(kept[k].title), threshold)
    THEN DedupeFromPrepends(xs, threshold, i + 1, kept)
    ELSE DedupeFromPrepends(xs, threshold, i + 1, << xs[i] >> \o kept)

\* DedupeFrom, but an item is compared with the last kept item only.
RECURSIVE DedupeFromLastOnly(_, _, _, _)
DedupeFromLastOnly(xs, threshold, i, kept) ==
  IF i > Len(xs) THEN kept
  ELSE IF /\ kept # << >>
          /\ TokenSetRatioGE(norm(xs[i].title), norm(kept[Len(kept)].title),
                             threshold)
    THEN DedupeFromLastOnly(xs, threshold, i + 1, kept)
    ELSE DedupeFromLastOnly(xs, threshold, i + 1, Append(kept, xs[i]))

\* The loop of dedupe from the item xs[i] on; kept is the list `out`.
RECURSIVE DedupeFrom(_, _, _, _)
DedupeFrom(xs, threshold, i, kept) ==
  IF i > Len(xs) THEN kept
  ELSE IF \E k \in DOMAIN kept :
            TokenSetRatioGE(norm(xs[i].title), norm(kept[k].title), threshold)
    THEN DedupeFrom(xs, threshold, i + 1, kept)
    ELSE DedupeFrom(xs, threshold, i + 1, Append(kept, xs[i]))

dedupe(xs, threshold) == DedupeFrom(xs, threshold, 1, << >>)

(***************************************************************************)
(* split and the rendered message.                                         *)
(*                                                                         *)
(* A text is the sequence of its lines (text.split("\n")).  A line is      *)
(* [id, body, trail]: id names its content, body is the number of          *)
(* characters up to and including its last non-whitespace character (0     *)
(* for a whitespace-only line) and trail the number of whitespace          *)
(* characters after that.  strip() and rstrip() read and change nothing    *)
(* else of a line.                                                         *)
(***************************************************************************)
TELEGRAM_MAX == 3800

LineLen(l) == l.body + l.trail

RECURSIVE SumLen(_)
SumLen(ls) == IF ls = << >> THEN 0 ELSE LineLen(ls[1]) + SumLen(Tail(ls))

\* len(cur): cur holds every line followed by "\n".
CurLen(c) == SumLen(c) + Len(c)

\* bool(cur.strip())
CurNonBlank(c) == \E k \in DOMAIN c : c[k].body > 0

\* cur.rstrip() of a cur that is not blank, as the lines of the part: the
\* trailing whitespace-only lines and the newlines go, and the last line
\* left loses its trailing whitespace.
CurRStrip(c) ==
  LET n == CHOOSE k \in DOMAIN c :
             c[k].body > 0 /\ \A j \in (k + 1)..Len(c) : c[j].body = 0
  IN  [k \in 1..n |-> IF k = n THEN [c[k] EXCEPT !.trail = 0] ELSE c[k]]

\* len(part): the lines of a part are joined by "\n".
PartLen(part) == SumLen(part) + Len(part) - 1

\* SplitLine, but the line that does not fit is not carried into the next
\* part.
SplitLineDropsLine(ps, c, line) ==
  IF CurLen(c) + LineLen(line) + 1 > TELEGRAM_MAX
    THEN [parts |-> IF CurNonBlank(c)
                      THEN Append(ps, CurRStrip(c))
                      ELSE ps,
          cur |-> << >>]
    ELSE [parts |-> ps, cur |-> Append(c, line)]

\* The if/else of split's loop body, as the next (parts, cur).
SplitLine(ps, c, line) ==
  IF CurLen(c) + LineLen(line) + 1 > TELEGRAM_MAX
    THEN [parts |-> IF CurNonBlank(c)
                      THEN Append(ps, CurRStrip(c))
                      ELSE ps,
          cur |-> << line >>]
    ELSE [parts |-> ps, cur |-> Append(c, line)]

\* The flush after split's loop.
SplitFlush(ps, c) ==
  IF CurNonBlank(c) THEN Append(ps, CurRStrip(c)) ELSE ps

(***************************************************************************)
(* render_item, render_region and the header, as lines with their lengths. *)
(***************************************************************************)
\* len(html.escape(s)), quote=True.
RECURSIVE EscapeLen(_)
EscapeLen(s) ==
  IF s = << >> THEN 0
  ELSE (CASE s[1] = "&" -> 5
          [] s[1] \in { "<", ">" } -> 4
          [] s[1] \in { "\"", "'" } -> 6
          [] OTHER -> 1) + EscapeLen(Tail(s))

\* A line that ends in a non-whitespace character; id is a tuple.
TextLine(id, n) == [id |-> id, body |-> n, trail |-> 0]

BlankLine == [id |-> << >>, body |-> 0, trail |-> 0]

\* The line render_item makes; "(fara titlu)" has 14 characters in the file.
render_item(it) ==
  LET title == IF it.title # << >> THEN EscapeLen(it.title) ELSE 14
      link == EscapeLen(it.link)
      src == EscapeLen(it.source)
  IN  TextLine(<< "item", it >>,
               IF it.link # << >>
                 THEN 4 + title + 14 + link + 19 + src + 5
                 ELSE 4 + title + 5 + src + 5)

\* The display order and the lengths of the escaped category labels between
\* the bullet (7 characters with "<b>") and "</b>".
order ==
  << [cat |-> "politics", len |-> 7 + 15 + 4],
     [cat |-> "economy", len |-> 7 + 13 + 4],
     [cat |-> "technology", len |-> 7 + 31 + 4] >>

RECURSIVE RenderCats(_, _)
RenderCats(bs, n) ==
  IF n > Len(order) THEN << >>
  ELSE LET items == bs[order[n].cat]
       IN  (IF items = << >> THEN << >>
            ELSE << TextLine(<< order[n].cat >>, order[n].len) >>
                 \o [k \in DOMAIN items |-> render_item(items[k])]
                 \o << BlankLine >>)
           \o RenderCats(bs, n + 1)

\* What render_region adds to msg; head_len is the length of the region's
\* heading line.
render_region(bs, region_key, head_len) ==
  LET body == RenderCats(bs[region_key], 1)
  IN  << TextLine(<< region_key >>, head_len) >>
      \o (IF body = << >>
            THEN << TextLine(<< "nothing" >>, 35), BlankLine >>
            ELSE body)

\* The lines of msg when split is called: the header (25 characters, the
\* 11 of the date, "</b>"), a blank line, the two regions, and the empty
\* string after the final "\n".
RenderMsg(bs) ==
  << TextLine(<< "header" >>, 25 + 11 + 4), BlankLine >>
  \o render_region(bs, "romania", 8 + 4 + 8 + 4)
  \o render_region(bs, "world", 3 + 4 + 6 + 4)
  \o << BlankLine >>

(***************************************************************************)
(* The body of process's loop for one entry: the categories whose bucket   *)
(* of the region the entry's item is appended to.                          *)
(***************************************************************************)
Excluded(entry) == exclude_any # << >> /\ any_kw_in(EntryHay(entry), exclude_any)

\* process_entry, but the exclusion test comes after classification and
\* only drops entries that match no category.
process_entry_classify_first(r, entry) ==
  LET cats == classify(EntryTitle(entry), EntrySummary(entry), categories) \cap selected
  IN  IF r = "romania" /\ EntryTitle(entry) # << >>
         /\ ~is_romanian(EntryTitle(entry))
        THEN { }
      ELSE IF cats = { } /\ Excluded(entry) THEN { }
      ELSE cats

\* process_entry, but the language gate is applied in every region.
process_entry_gate_everywhere(r, entry) ==
  IF Excluded(entry) THEN { }
  ELSE IF EntryTitle(entry) # << >> /\ ~is_romanian(EntryTitle(entry))
    THEN { }
  ELSE classify(EntryTitle(entry), EntrySummary(entry), categories) \cap selected

process_entry(r, entry) ==
  IF Excluded(entry) THEN { }
  ELSE IF r = "romania" /\ EntryTitle(entry) # << >>
          /\ ~is_romanian(EntryTitle(entry))
    THEN { }
  ELSE classify(EntryTitle(entry), EntrySummary(entry), categories) \cap selected

MakeItem(entry, sname) ==
  [title |-> EntryTitle(entry), link |-> EntryLink(entry), source |-> sname]

(***************************************************************************)
(* The state of a run of main.                                             *)
(***************************************************************************)
VARIABLES
  max_items_per_section,  \* settings
  dedupe_threshold,
  items_per_feed,
  pc,        \* where the run is
  todo,      \* the (region, feed) pairs the two collect loops still visit
  region,    \* process's arguments and locals
  src,
  pending,   \* the fetched entries the loop has not reached
  e,         \* the entry of the last loop iteration, as a list of 0 or 1
  appended,  \* the categories whose bucket it was appended to
  buckets,
  text,      \* the lines split was called with
  rest,      \* the lines split's loop has not reached
  cur,
  parts,
  sent,      \* the number of calls of send
  exc,       \* the exception that ended the run: "none", "fetch" or "send"
  items,     \* dedupe's argument, and its result applied once and twice
  out,
  out2

vars ==
  << max_items_per_section, dedupe_threshold, items_per_feed, pc, todo,
     region, src, pending, e, appended, buckets, text, rest, cur, parts, sent,
     exc, items, out, out2 >>

settings_vars == << max_items_per_section, dedupe_threshold, items_per_feed >>

process_vars == << region, src, pending, e, appended >>

split_vars == << text, rest, cur, parts >>

dedupe_vars == << items, out, out2 >>

EmptyBuckets == [r \in Regions |-> [c \in selected |-> << >>]]

\* feeds.get("romania") then feeds.get("world"), in the order main visits.
AllFeeds ==
  [k \in DOMAIN feeds.romania |-> [region |-> "romania", feed |-> feeds.romania[k]]]
  \o [k \in DOMAIN feeds.world |-> [region |-> "world", feed |-> feeds.world[k]]]

Init ==
  /\ max_items_per_section \in MaxItemsValues
  /\ dedupe_threshold \in ThresholdValues
  /\ items_per_feed \in ItemsPerFeedValues
  /\ pc = "collect"
  /\ todo = AllFeeds
  /\ region = "romania" /\ src = << >> /\ pending = << >>
  /\ e = << >> /\ appended = { }
  /\ buckets = EmptyBuckets
  /\ text = << >> /\ rest = << >> /\ cur = << >> /\ parts = << >>
  /\ sent = 0 /\ exc = "none"
  /\ items = << >> /\ out = << >> /\ out2 = << >>

(***************************************************************************)
(* collect: process(region, feed) for every feed.                          *)
(***************************************************************************)
\* process returns at once for a feed without url.
SkipFeed ==
  /\ pc = "collect" /\ todo # << >>
  /\ Strip(todo[1].feed.url) = << >>
  /\ todo' = Tail(todo)
  /\ UNCHANGED << settings_vars, pc, process_vars, buckets, split_vars, sent,
                  exc, dedupe_vars >>

\* fetch returns the entries the loop will visit.
Fetch ==
  /\ pc = "collect" /\ todo # << >>
  /\ Strip(todo[1].feed.url) # << >>
  /\ \E outcome \in FetchOutcomes :
       /\ ~outcome.raised
       /\ pending' = fetch(outcome, items_per_feed)
  /\ region' = todo[1].region
  /\ src' = Strip(todo[1].feed.name)
  /\ todo' = Tail(todo)
  /\ pc' = "process"
  /\ UNCHANGED << settings_vars, e, appended, buckets, split_vars, sent, exc,
                  dedupe_vars >>

\* feedparser.parse raises: nothing in fetch, process or main catches it.
FetchRaises ==
  /\ pc = "collect" /\ todo # << >>
  /\ Strip(todo[1].feed.url) # << >>
  /\ \E outcome \in FetchOutcomes : outcome.raised
  /\ pc' = "aborted"
  /\ exc' = "fetch"
  /\ UNCHANGED << settings_vars, todo, process_vars, buckets, split_vars,
                  sent, dedupe_vars >>

\* One iteration of process's loop.
ProcessEntry ==
  /\ pc = "process" /\ pending # << >>
  /\ LET entry == Head(pending)
         cats == process_entry(region, entry)
     IN  /\ e' = << entry >>
         /\ appended' = cats
         /\ buckets' =
              [buckets EXCEPT ![region] =
                 [c \in selected |->
                    IF c \in cats
                      THEN Append(buckets[region][c], MakeItem(entry, src))
                      ELSE buckets[region][c]]]
  /\ pending' = Tail(pending)
  /\ UNCHANGED << settings_vars, pc, todo, region, src, split_vars, sent, exc,
                  dedupe_vars >>

\* process returns.
EndFeed ==
  /\ pc = "process" /\ pending = << >>
  /\ pc' = "collect"
  /\ UNCHANGED << settings_vars, todo, process_vars, buckets, split_vars,
                  sent, exc, dedupe_vars >>

(***************************************************************************)
(* dedupe + cap, render, split, send.                                      *)
(***************************************************************************)
\* DedupeCapBucket, but the slice is missing.
DedupeOnlyBucket(b) == dedupe(b, dedupe_threshold)

DedupeCapBucket(b) == Slice(dedupe(b, dedupe_threshold), max_items_per_section)

DedupeCap ==
  /\ pc = "collect" /\ todo = << >>
  /\ buckets' = [r \in Regions |-> [c \in selected |->
                   DedupeCapBucket(buckets[r][c])]]
  /\ pc' = "render"
  /\ UNCHANGED << settings_vars, todo, process_vars, split_vars, sent, exc,
                  dedupe_vars >>

\* msg is built and split(msg) is entered.
Render ==
  /\ pc = "render"
  /\ text' = RenderMsg(buckets)
  /\ rest' = text'
  /\ cur' = << >>
  /\ parts' = << >>
  /\ pc' = "split"
  /\ UNCHANGED << settings_vars, todo, process_vars, buckets, sent, exc,
                  dedupe_vars >>

\* One iteration of split's loop.
SplitStep ==
  /\ pc = "split" /\ rest # << >>
  /\ LET next == SplitLine(parts, cur, Head(rest))
     IN  parts' = next.parts /\ cur' = next.cur
  /\ rest' = Tail(rest)
  /\ UNCHANGED << settings_vars, pc, todo, process_vars, buckets, text, sent,
                  exc, dedupe_vars >>

\* split's last flush and return.
SplitEnd ==
  /\ pc = "split" /\ rest = << >>
  /\ parts' = SplitFlush(parts, cur)
  /\ pc' = "send"
  /\ UNCHANGED << settings_vars, todo, process_vars, buckets, text, rest, cur,
                  sent, exc, dedupe_vars >>

\* send(part) returns.
SendOk ==
  /\ pc = "send" /\ sent < Len(parts)
  /\ sent' = sent + 1
  /\ UNCHANGED << settings_vars, pc, todo, process_vars, buckets, split_vars,
                  exc, dedupe_vars >>

\* send(part) raises (the post fails, or raise_for_status does): main's
\* loop does not catch it.
SendRaises ==
  /\ pc = "send" /\ sent < Len(parts)
  /\ sent' = sent + 1
  /\ exc' = "send"
  /\ pc' = "aborted"
  /\ UNCHANGED << settings_vars, todo, process_vars, buckets, split_vars,
                  dedupe_vars >>

\* main returns.
Finish ==
  /\ pc = "send" /\ sent = Len(parts)
  /\ pc' = "done"
  /\ UNCHANGED << settings_vars, todo, process_vars, buckets, split_vars,
                  sent, exc, dedupe_vars >>

Next ==
  \/ SkipFeed
  \/ Fetch
  \/ FetchRaises
  \/ ProcessEntry
  \/ EndFeed
  \/ DedupeCap
  \/ Render
  \/ SplitStep
  \/ SplitEnd
  \/ SendOk
  \/ SendRaises
  \/ Finish

Spec == Init /\ [][Next]_vars

(***************************************************************************)
(* split and the send loop on any text: the run starts where main calls    *)
(* split(msg), with msg any text of at most MaxLines lines.                *)
(***************************************************************************)
MaxLines == 3

\* Lines around the limit: empty, whitespace only, short, two that fill a
\* part together only without the trailing blank of the second, one of
\* exactly TELEGRAM_MAX characters and one of TELEGRAM_MAX + 1.
LineShapes ==
  { BlankLine,
    [id |-> << >>, body |-> 0, trail |-> 2],
    [id |-> << "e" >>, body |-> 5, trail |-> 0],
    [id |-> << "a" >>, body |-> 1899, trail |-> 0],
    [id |-> << "b" >>, body |-> 1899, trail |-> 1],
    [id |-> << "c" >>, body |-> TELEGRAM_MAX, trail |-> 0],
    [id |-> << "d" >>, body |-> TELEGRAM_MAX + 1, trail |-> 0] }

\* text.split("\n") is never empty.
Texts == SeqsUpTo(LineShapes, MaxLines) \ { << >> }

InitSplit ==
  /\ max_items_per_section = 10
  /\ dedupe_threshold = 92
  /\ items_per_feed = 15
  /\ pc = "split"
  /\ todo = << >>
  /\ region = "romania" /\ src = << >> /\ pending = << >>
  /\ e = << >> /\ appended = { }
  /\ buckets = EmptyBuckets
  /\ text \in Texts
  /\ rest = text /\ cur = << >> /\ parts = << >>
  /\ sent = 0 /\ exc = "none"
  /\ items = << >> /\ out = << >> /\ out2 = << >>

NextSplit ==
  \/ SplitStep
  \/ SplitEnd
  \/ SendOk
  \/ SendRaises
  \/ Finish

SpecSplit == InitSplit /\ [][NextSplit]_vars

(***************************************************************************)
(* dedupe on any item list of at most MaxItems items, applied once and     *)
(* then again to its own result.                                           *)
(***************************************************************************)
MaxItems == 3

DedupeItems == { MakeItem(x, << "W" >>) : x \in Entries }

InitDedupe ==
  /\ max_items_per_section = 10
  /\ dedupe_threshold \in ThresholdValues
  /\ items_per_feed = 15
  /\ pc = "dedupe"
  /\ todo = << >>
  /\ region = "romania" /\ src = << >> /\ pending = << >>
  /\ e = << >> /\ appended = { }
  /\ buckets = EmptyBuckets
  /\ text = << >> /\ rest = << >> /\ cur = << >> /\ parts = << >>
  /\ sent = 0 /\ exc = "none"
  /\ items \in SeqsUpTo(DedupeItems, MaxItems)
  /\ out = << >> /\ out2 = << >>

DedupeOnce ==
  /\ pc = "dedupe"
  /\ out' = dedupe(items, dedupe_threshold)
  /\ pc' = "deduped"
  /\ UNCHANGED << settings_vars, todo, process_vars, buckets, split_vars,
                  sent, exc, items, out2 >>

DedupeAgain ==
  /\ pc = "deduped"
  /\ out2' = dedupe(out, dedupe_threshold)
  /\ pc' = "deduped twice"
  /\ UNCHANGED << settings_vars, todo, process_vars, buckets, split_vars,
                  sent, exc, items, out >>

NextDedupe ==
  \/ DedupeOnce
  \/ DedupeAgain

SpecDedupe == InitDedupe /\ [][NextDedupe]_vars

(***************************************************************************)
(* Properties of split (SpecSplit).                                        *)
(***************************************************************************)
SplitReturned == pc \in { "send", "done", "aborted" }

\* The lines of "\n".join(parts).
RECURSIVE JoinedLines(_)
JoinedLines(ps) ==
  IF ps = << >> THEN << >> ELSE ps[1] \o JoinedLines(Tail(ps))

\* The lines with a non-whitespace character, without their trailing
\* whitespace.
RECURSIVE NonBlankLines(_)
NonBlankLines(ls) ==
  IF ls = << >> THEN << >>
  ELSE (IF ls[1].body > 0 THEN << [ls[1] EXCEPT !.trail = 0] >> ELSE << >>)
       \o NonBlankLines(Tail(ls))

\* C1: every part split returns has at most TELEGRAM_MAX characters.
C1_PartsWithinMax ==
  \A k \in DOMAIN parts : PartLen(parts[k]) <= TELEGRAM_MAX

\* C2, as claimed: the parts joined by newlines hold exactly the lines of
\* the text, blank lines included, in order and once each.
C2_AllLinesKept ==
  SplitReturned => JoinedLines(parts) = text

\* C2, amended: every line of a part is a line of the text, whole, except
\* that the last line of a part has lost its trailing whitespace; the lines
\* of the text that hold a non-whitespace character appear in the parts in
\* the original order, once each; no part is empty or ends in a
\* whitespace-only line.
C2_NonBlankLinesKept ==
  SplitReturned =>
    /\ NonBlankLines(JoinedLines(parts)) = NonBlankLines(text)
    /\ \A k \in DOMAIN parts :
         LET p == parts[k]
         IN  /\ p # << >>
             /\ p[Len(p)].body > 0 /\ p[Len(p)].trail = 0
             /\ \E l \in Range(text) : p[Len(p)] = [l EXCEPT !.trail = 0]
             /\ \A n \in 1..(Len(p) - 1) : p[n] \in Range(text)
    /\ Len(JoinedLines(parts)) <= Len(text)

\* C2's case: split returned several parts and dropped or trimmed a line.
C2_Witness ==
  /\ pc = "send"
  /\ Len(parts) >= 2
  /\ JoinedLines(parts) # text
  /\ \E k \in DOMAIN text : text[k].body > 0 /\ text[k].trail > 0

\* C7: when delivery of a part fails, send is still called for every part.
C7_AllPartsAttempted ==
  (pc = "aborted" /\ exc = "send") => sent = Len(parts)

(***************************************************************************)
(* Properties of dedupe (SpecDedupe).                                      *)
(***************************************************************************)
\* fuzz.token_set_ratio(norm(a.title), norm(b.title)) >= dedupe_threshold,
\* a the later item.
TooSimilar(a, b) ==
  TokenSetRatioGE(norm(a.title), norm(b.title), dedupe_threshold)

\* The items of s at the indices in K, in order.
RECURSIVE Pick(_, _, _)
Pick(s, K, i) ==
  IF i > Len(s) THEN << >>
  ELSE (IF i \in K THEN << s[i] >> ELSE << >>) \o Pick(s, K, i + 1)

\* C6: dedupe applied to its own result returns it unchanged.
C6_DedupeIdempotent ==
  pc = "deduped twice" => out2 = out

\* C6's case: dedupe dropped an item and kept several, and ran again.
C6_Witness ==
  /\ pc = "deduped twice"
  /\ Len(out) >= 2
  /\ Len(out) < Len(items)

\* C10: the result holds the items at some positions K of the input, in
\* the input's order and unchanged; every item left out is too similar to
\* a kept item before it; no kept item is too similar to a kept item
\* before it.
C10_FirstOccurrenceWins ==
  pc \in { "deduped", "deduped twice" } =>
    \E K \in SUBSET DOMAIN items :
      /\ out = Pick(items, K, 1)
      /\ \A i \in DOMAIN items \ K :
           \E j \in K : j < i /\ TooSimilar(items[i], items[j])
      /\ \A i \in K : \A j \in K : j < i => ~TooSimilar(items[i], items[j])

\* C10's case: a later item with another title than every kept item was
\* discarded, and an item after a different first one was kept.
C10_Witness ==
  /\ pc = "deduped"
  /\ Len(out) >= 2
  /\ \E i \in DOMAIN items :
       \A k \in DOMAIN out : out[k].title # items[i].title

(***************************************************************************)
(* Properties of a run of main (Spec).                                     *)
(***************************************************************************)
\* The loop of process is about to handle the first pending entry.
AtEntry == pc = "process" /\ pending # << >>

\* buckets with item appended to the region's buckets of the categories cats.
AppendTo(bs, r, cats, item) ==
  [bs EXCEPT ![r] = [c \in selected |->
     IF c \in cats THEN Append(bs[r][c], item) ELSE bs[r][c]]]

\* The dedupe + cap loop has run.
AfterDedupeCap ==
  \/ pc \in { "render", "split", "send", "done" }
  \/ pc = "aborted" /\ exc = "send"

\* An item made from an entry that an exclude_any keyword matches.
FromExcluded(item) ==
  \E x \in Entries :
    /\ Excluded(x)
    /\ item.title = EntryTitle(x) /\ item.link = EntryLink(x)

\* C3: the loop iteration of an entry that an exclude_any keyword matches
\* appends to no bucket, and no bucket ever holds an item made from such an
\* entry.
C3_ExclusionPrecedence ==
  /\ [][(AtEntry /\ Excluded(Head(pending)))
          => (buckets' = buckets /\ appended' = { })]_vars
  /\ [](\A r \in Regions : \A c \in selected :
          \A k \in DOMAIN buckets[r][c] : ~FromExcluded(buckets[r][c][k]))

\* C3's case: an excluded entry of a romania feed, with a Romanian title and
\* matching two selected categories, has been handled.
C3_Witness ==
  /\ pc = "process" /\ region = "romania" /\ e # << >>
  /\ Excluded(e[1])
  /\ is_romanian(EntryTitle(e[1]))
  /\ Cardinality(classify(EntryTitle(e[1]), EntrySummary(e[1]), categories)
                   \cap selected) >= 2
  /\ \E c \in selected : buckets["romania"][c] # << >>

\* Two items with the same title and link.
SameArticle(a, b) == a.title = b.title /\ a.link = b.link

\* C4: after dedupe + cap no bucket holds the same article twice.
C4_NoArticleTwice ==
  AfterDedupeCap =>
    \A r \in Regions : \A c \in selected :
      \A i \in DOMAIN buckets[r][c] : \A j \in DOMAIN buckets[r][c] :
        i # j => ~SameArticle(buckets[r][c][i], buckets[r][c][j])

\* C5, as claimed: no bucket that is rendered holds more items than
\* max_items_per_section, whatever integer that is.
C5_BucketCap ==
  AfterDedupeCap =>
    \A r \in Regions : \A c \in selected :
      Len(buckets[r][c]) <= max_items_per_section

\* C5, amended: for max_items_per_section >= 0, no bucket that is rendered
\* holds more items than max_items_per_section.
C5_BucketCapNonNegative ==
  (AfterDedupeCap /\ max_items_per_section >= 0) =>
    \A r \in Regions : \A c \in selected :
      Len(buckets[r][c]) <= max_items_per_section

\* C5's case: with a threshold no score reaches, a bucket the last entry
\* was appended to holds one item after the cap of 1, and not that entry's.
C5_Witness ==
  /\ pc = "render"
  /\ max_items_per_section = 1 /\ dedupe_threshold = 101
  /\ e # << >>
  /\ \E c \in appended :
       /\ Len(buckets[region][c]) = 1
       /\ buckets[region][c][1] # MakeItem(e[1], src)

\* C8: a failing fetch does not end the run.
C8_FetchFailureNeverAborts ==
  exc = "fetch" => pc # "aborted"

\* The categories an entry goes to when only exclusion and classification
\* decide.
Ungated(entry) ==
  IF Excluded(entry) THEN { }
  ELSE classify(EntryTitle(entry), EntrySummary(entry), categories)
         \cap selected

\* A world entry is appended where exclusion and classification say.
WorldNotGated ==
  (AtEntry /\ region = "world") =>
    buckets' = AppendTo(buckets, "world", Ungated(Head(pending)),
                        MakeItem(Head(pending), src))

\* C9, as claimed: every item of a romania bucket has a title is_romanian
\* accepts, and is_romanian decides nothing for a world entry.
C9_GateExactlyRomania ==
  /\ [](\A c \in selected : \A k \in DOMAIN buckets["romania"][c] :
          is_romanian(buckets["romania"][c][k].title))
  /\ [][WorldNotGated]_vars

\* C9, amended: every item of a romania bucket has an empty title or a
\* title is_romanian accepts, and is_romanian decides nothing for a world
\* entry.
C9_GateRomaniaTitled ==
  /\ [](\A c \in selected : \A k \in DOMAIN buckets["romania"][c] :
          LET t == buckets["romania"][c][k].title
          IN  t = << >> \/ is_romanian(t))
  /\ [][WorldNotGated]_vars

\* C9's case: a romania bucket holds an untitled item, and the world buckets
\* hold an item whose title the detector rejects and one whose title it
\* accepts.
C9_Witness ==
  /\ \E c \in selected : \E k \in DOMAIN buckets["romania"][c] :
       buckets["romania"][c][k].title = << >>
  /\ \E c \in selected : \E k \in DOMAIN buckets["world"][c] :
       LET t == buckets["world"][c][k].title
       IN  t # << >> /\ ~is_romanian(t)
  /\ \E c \in selected : \E k \in DOMAIN buckets["world"][c] :
       is_romanian(buckets["world"][c][k].title)

====
